---- MODULE Spec2Model ----
(***************************************************************************)
(* Model of the Poloniex API client (poloniex/poloniex.py): construction   *)
(* and credential loading, client comparison, request signing for the      *)
(* private REST calls, the public REST calls, and the three push-channel   *)
(* wrappers (trollbox, ticker, order book).                                *)
(***************************************************************************)
EXTENDS Integers, Sequences, FiniteSets, TLC

(***************************************************************************)
(* Bounds of the model.                                                    *)
(***************************************************************************)
\* longest log of HTTP requests kept
MaxCalls == 2
\* last instant of the wall clock, in clock ticks
MaxClock == 3
\* longest order-book batch delivered
MaxBatch == 2
\* most push messages delivered
MaxMessages == 1

\* time.time() * 1000 is truncated to an integer: clock ticks per millisecond
\* (the clock is finer than the nonce)
TicksPerMs == 2

(***************************************************************************)
(* Python values.  A string is a sequence of one-character strings, so     *)
(* that strip() and URL quoting work on characters; bytes and str are      *)
(* different types, as in Python 3.                                        *)
(***************************************************************************)
PyNone == [t |-> "none", v |-> <<>>]
Str(s) == [t |-> "str", v |-> s]
Bytes(s) == [t |-> "bytes", v |-> s]
PyInt(n) == [t |-> "int", v |-> <<n>>]
\* marks a key a mapping does not hold / an attribute a module does not define
Missing == [t |-> "missing", v |-> <<>>]

IsStr(x) == x.t = "str"

\* Python ==  between values of the types above: values of different types
\* are unequal (b'' == '' is False)
PyEq(a, b) == a.t = b.t /\ a.v = b.v

Whitespace == {" "}

RECURSIVE LStrip(_)
LStrip(s) ==
    IF s # <<>> /\ Head(s) \in Whitespace THEN LStrip(Tail(s)) ELSE s

RECURSIVE RStrip(_)
RStrip(s) ==
    IF s # <<>> /\ s[Len(s)] \in Whitespace
    THEN RStrip(SubSeq(s, 1, Len(s) - 1))
    ELSE s

\* str.strip() and bytes.strip(): the result has the type of the receiver
Strip(x) == [t |-> x.t, v |-> RStrip(LStrip(x.v))]

\* str.encode('utf8') of an ASCII string
Encode(x) == Bytes(x.v)

(***************************************************************************)
(* Exceptions.                                                             *)
(***************************************************************************)
NoError == "none"
\* raise Exception('You need to pass either config_file_path parameter ...')
ErrNeedSource == "Exception: need config_file_path or api_key and secret"
\* raise Exception('No credentials were found')
ErrNoCredentials == "Exception: no credentials were found"
\* raise Exception('While the config file was found, it was not configured correctly ...')
ErrMisconfigured == "Exception: config file not configured correctly"
AttributeError == "AttributeError"
TypeError == "TypeError"
InvalidOperation == "decimal.InvalidOperation"
ValueError == "ValueError"

(***************************************************************************)
(* Config files, as the three loaders of __get_credentials see them.       *)
(*   ini.section : ConfigParser.read parsed the file and it has [CONFIG]   *)
(*   json.kind   : "invalid" (open or json.loads fails), "dict", or        *)
(*                 "other" (a JSON value without .get)                     *)
(*   py.loads    : SourceFileLoader.load_module succeeds                   *)
(* A value Missing is an option, key or attribute the file does not have.  *)
(***************************************************************************)
NoIni == [section |-> FALSE, apiKey |-> Missing, secret |-> Missing]
NoJson == [kind |-> "invalid", apiKey |-> Missing, secret |-> Missing]
NoPy == [loads |-> FALSE, api_key |-> Missing, secret |-> Missing]

\* no file at the path, or a file none of the loaders can read
NoFile == [ini |-> NoIni, json |-> NoJson, py |-> NoPy]

\* [CONFIG] with the options given; neither JSON nor loadable Python
IniFile(k, s) ==
    [ini |-> [section |-> TRUE, apiKey |-> k, secret |-> s],
     json |-> NoJson, py |-> NoPy]

\* a JSON object; ConfigParser finds no section header in it
JsonFile(k, s) ==
    [ini |-> NoIni, json |-> [kind |-> "dict", apiKey |-> k, secret |-> s],
     py |-> NoPy]

\* a JSON value that is not an object, e.g. [1, 2]: also valid Python that
\* defines nothing
JsonOtherFile ==
    [ini |-> NoIni,
     json |-> [kind |-> "other", apiKey |-> Missing, secret |-> Missing],
     py |-> [loads |-> TRUE, api_key |-> Missing, secret |-> Missing]]

\* a Python module; neither INI nor JSON
PyFile(k, s) ==
    [ini |-> NoIni, json |-> NoJson,
     py |-> [loads |-> TRUE, api_key |-> k, secret |-> s]]

\* option values of an INI file are strings
IniVals == {Missing, Str(<<>>), Str(<<"a">>)}
\* JSON null and a Python None are PyNone
FileVals == {Missing, PyNone, Str(<<>>), Str(<<"a">>)}

Files ==
    {NoFile, JsonOtherFile}
    \cup {IniFile(k, s) : k \in IniVals, s \in IniVals}
    \cup {JsonFile(k, s) : k \in FileVals, s \in FileVals}
    \cup {PyFile(k, s) : k \in FileVals, s \in FileVals}

\* explicit api_key / secret arguments
ArgVals == {PyNone, Str(<<>>), Str(<<" ">>), Str(<<"a">>), Str(<<"b">>)}

\* config_file_path is None (NoPath) or the path of one of Files
NoPath == [given |-> FALSE, file |-> NoFile]
PathTo(file) == [given |-> TRUE, file |-> file]

\* the arguments of Poloniex(config_file_path, api_key, secret)
CtorInputs ==
    [path : {NoPath}, api_key : ArgVals, secret : ArgVals]
    \cup {[path |-> PathTo(f), api_key |-> k, secret |-> k] : f \in Files, k \in {PyNone, Str(<<"b">>)}}

(***************************************************************************)
(* Poloniex.__get_credentials                                              *)
(***************************************************************************)
\* the locals api_key, secret and the loaders tried so far
CredLocals == [api_key |-> PyNone, secret |-> PyNone, tried |-> <<>>, returned |-> FALSE]

\* config_parser.get raises when the section or the option is missing; the
\* assignment to api_key has happened when the secret is the missing one
TryIni(file, l) ==
    LET l1 == [l EXCEPT !.tried = Append(@, "ini")]
    IN  IF ~file.ini.section \/ file.ini.apiKey = Missing THEN l1
        ELSE IF file.ini.secret = Missing
             THEN [l1 EXCEPT !.api_key = file.ini.apiKey]
             ELSE [l1 EXCEPT !.api_key = file.ini.apiKey,
                             !.secret = file.ini.secret,
                             !.returned = TRUE]

\* blob.get(key) is None for a key the object does not hold
DictGet(v) == IF v = Missing THEN PyNone ELSE v

\* json.loads raises on invalid JSON, blob.get on a value that is no object
TryJson(file, l) ==
    LET l1 == [l EXCEPT !.tried = Append(@, "json")]
    IN  IF file.json.kind # "dict" THEN l1
        ELSE [l1 EXCEPT !.api_key = DictGet(file.json.apiKey),
                        !.secret = DictGet(file.json.secret),
                        !.returned = TRUE]

\* config.api_key / config.secret raise AttributeError when not defined
TrySource(file, l) ==
    LET l1 == [l EXCEPT !.tried = Append(@, "py")]
    IN  IF ~file.py.loads \/ file.py.api_key = Missing THEN l1
        ELSE IF file.py.secret = Missing
             THEN [l1 EXCEPT !.api_key = file.py.api_key]
             ELSE [l1 EXCEPT !.api_key = file.py.api_key,
                             !.secret = file.py.secret,
                             !.returned = TRUE]

GetCredentials(file) ==
    LET a == TryIni(file, CredLocals)
        b == IF a.returned THEN a ELSE TryJson(file, a)
        c == IF b.returned THEN b ELSE TrySource(file, b)
    IN  IF c.returned
        THEN [err |-> NoError, api_key |-> c.api_key, secret |-> c.secret,
              tried |-> c.tried]
        ELSE IF c.api_key = PyNone \/ c.secret = PyNone
             THEN [err |-> ErrMisconfigured, api_key |-> PyNone,
                   secret |-> PyNone, tried |-> c.tried]
             ELSE [err |-> NoError, api_key |-> c.api_key,
                   secret |-> c.secret, tried |-> c.tried]

(***************************************************************************)
(* Poloniex.__init__                                                       *)
(***************************************************************************)
ApiEndpoint == "https://api.poloniex.com/"
PrivateApiEndpoint == "https://www.poloniex.com/"
WebsocketsEndpoint == "wss://api.poloniex.com/"

\* self.runner = None
NoRunner == "None"

\* no object: before construction, or after a constructor that raised
NoClient(status, err, tried) ==
    [status |-> status, err |-> err, api_key |-> PyNone, secret |-> PyNone,
     runner |-> NoRunner, api_endpoint |-> "", private_api_endpoint |-> "",
     websockets_endpoint |-> "", tried |-> tried]

\* the first check, were it to ask for both arguments to be absent
NoSourceGivenBothAbsent(args) ==
    ~args.path.given /\ (args.api_key = PyNone /\ args.secret = PyNone)

\* the guard of the first raise
NoSourceGiven(args) ==
    ~args.path.given /\ (args.api_key = PyNone \/ args.secret = PyNone)

\* the guard of the last raise; self.secret is bytes by then
NoCredentialsFound(api_key, secret) ==
    \/ api_key = PyNone
    \/ PyEq(Strip(api_key), Str(<<>>))
    \/ secret = PyNone
    \/ PyEq(Strip(secret), Str(<<>>))

PoloniexInit(args) ==
    IF NoSourceGiven(args) THEN NoClient("failed", ErrNeedSource, <<>>)
    ELSE
    LET cred == IF args.path.given THEN GetCredentials(args.path.file)
                ELSE [err |-> NoError, api_key |-> args.api_key,
                      secret |-> args.secret, tried |-> <<>>]
    IN  IF cred.err # NoError THEN NoClient("failed", cred.err, cred.tried)
        \* self.secret.encode('utf8') on None
        ELSE IF ~IsStr(cred.secret)
        THEN NoClient("failed", AttributeError, cred.tried)
        ELSE IF NoCredentialsFound(cred.api_key, Encode(cred.secret))
        THEN NoClient("failed", ErrNoCredentials, cred.tried)
        ELSE [status |-> "constructed", err |-> NoError,
              api_key |-> cred.api_key, secret |-> Encode(cred.secret),
              runner |-> NoRunner, api_endpoint |-> ApiEndpoint,
              private_api_endpoint |-> PrivateApiEndpoint,
              websockets_endpoint |-> WebsocketsEndpoint,
              tried |-> cred.tried]

(***************************************************************************)
(* Poloniex.__str__, __eq__, __ne__                                        *)
(***************************************************************************)
\* json.dumps of a list: bytes are not JSON serializable
JsonDumps(list) ==
    IF \E k \in 1..Len(list) : list[k].t = "bytes"
    THEN [err |-> TypeError, text |-> <<>>]
    ELSE [err |-> NoError, text |-> list]

ClientStr(c) == JsonDumps(<<c.api_key, c.secret>>)

\* str(self) == str(other); an exception of either str() propagates
ClientEq(a, b) ==
    LET sa == ClientStr(a)
        sb == ClientStr(b)
    IN  IF sa.err # NoError THEN [result |-> "raised", err |-> sa.err]
        ELSE IF sb.err # NoError THEN [result |-> "raised", err |-> sb.err]
        ELSE [result |-> IF sa.text = sb.text THEN "True" ELSE "False",
              err |-> NoError]

ClientNe(a, b) ==
    LET sa == ClientStr(a)
        sb == ClientStr(b)
    IN  IF sa.err # NoError THEN [result |-> "raised", err |-> sa.err]
        ELSE IF sb.err # NoError THEN [result |-> "raised", err |-> sb.err]
        ELSE [result |-> IF sa.text # sb.text THEN "True" ELSE "False",
              err |-> NoError]

(***************************************************************************)
(* Poloniex.__prepare_request_data                                         *)
(*                                                                         *)
(* A parameter mapping is a dict: a sequence of <<key, value>> pairs in    *)
(* insertion order.  A string is a sequence of tokens; a token is a run of *)
(* characters urlencode leaves alone, or one character it quotes.          *)
(***************************************************************************)
S(token) == Str(<<token>>)

\* params[key] = value: an existing key keeps its place
DictSet(params, key, value) ==
    IF \E k \in 1..Len(params) : params[k][1] = key
    THEN [k \in 1..Len(params) |->
            IF params[k][1] = key THEN <<key, value>> ELSE params[k]]
    ELSE Append(params, <<key, value>>)

\* int(time.time() * 1000), the clock being at tick t
Nonce(t) == t \div TicksPerMs

\* urllib.parse.quote_plus of one token
QuoteToken(c) ==
    CASE c = " " -> "+"
      [] c = "&" -> "%26"
      [] c = "=" -> "%3D"
      [] c = "+" -> "%2B"
      [] c = "%" -> "%25"
      [] OTHER -> c

\* quote_plus(str(value))
QuotePlus(x) ==
    CASE x.t = "int" -> <<ToString(x.v[1])>>
      [] x.t = "none" -> <<"None">>
      [] OTHER -> [k \in 1..Len(x.v) |-> QuoteToken(x.v[k])]

RECURSIVE JoinPairs(_)
JoinPairs(params) ==
    IF params = <<>> THEN <<>>
    ELSE LET one == QuotePlus(params[1][1]) \o <<"=">> \o QuotePlus(params[1][2])
         IN  IF Len(params) = 1 THEN one
             ELSE one \o <<"&">> \o JoinPairs(Tail(params))

\* urllib.parse.urlencode(params)
UrlEncode(params) == Str(JoinPairs(params))

\* hmac.new(key, message, hashlib.sha512).hexdigest(): the digest is taken
\* to be free of collisions, so it stands for the pair it was made of
HmacSha512Hex(key, message) ==
    [t |-> "hexdigest", v |-> <<>>, key |-> key, message |-> message]

\* the signer, were it to sign the parameters before the nonce is set
PrepareRequestDataSignFirst(c, params, t) ==
    LET encoded_params == Encode(UrlEncode(params))
        signed == DictSet(params, S("nonce"), PyInt(Nonce(t)))
    IN  [params |-> signed,
         headers |-> [Sign |-> HmacSha512Hex(c.secret, encoded_params),
                      Key |-> c.api_key]]

PrepareRequestData(c, params, t) ==
    LET signed == DictSet(params, S("nonce"), PyInt(Nonce(t)))
        encoded_params == Encode(UrlEncode(signed))
    IN  [params |-> signed,
         headers |-> [Sign |-> HmacSha512Hex(c.secret, encoded_params),
                      Key |-> c.api_key]]

(***************************************************************************)
(* decimal.Decimal(value) and datetime.strptime(value, format)             *)
(***************************************************************************)
Digits == {"0", "1", "2", "3", "4", "5", "6", "7", "8", "9"}

DigitValue(c) ==
    CASE c = "0" -> 0 [] c = "1" -> 1 [] c = "2" -> 2 [] c = "3" -> 3
      [] c = "4" -> 4 [] c = "5" -> 5 [] c = "6" -> 6 [] c = "7" -> 7
      [] c = "8" -> 8 [] c = "9" -> 9

\* the integer a sequence of digits writes, most significant first
RECURSIVE DigitsValue(_)
DigitsValue(ds) ==
    IF ds = <<>> THEN 0
    ELSE 10 * DigitsValue(SubSeq(ds, 1, Len(ds) - 1)) + DigitValue(ds[Len(ds)])

\* a decimal number: (-1)^sign * coef * 10^exp
Dec(sign, coef, exp) == [t |-> "decimal", v |-> <<sign, coef, exp>>]

Raise(err) == [err |-> err, val |-> PyNone]
Return(val) == [err |-> NoError, val |-> val]

\* Decimal of a string of characters: surrounding whitespace is dropped,
\* then [sign] digits [. digits] or [sign] . digits; the digits after the
\* point set the exponent, so no digit is rounded away
DecimalOfChars(chars) ==
    LET body == RStrip(LStrip(chars))
        signed == body # <<>> /\ Head(body) \in {"-", "+"}
        sign == IF signed /\ Head(body) = "-" THEN 1 ELSE 0
        num == IF signed THEN Tail(body) ELSE body
        dots == {k \in 1..Len(num) : num[k] = "."}
        digs == SelectSeq(num, LAMBDA c : c # ".")
    IN  IF \/ Cardinality(dots) > 1
           \/ digs = <<>>
           \/ \E k \in 1..Len(digs) : digs[k] \notin Digits
        THEN Raise(InvalidOperation)
        ELSE Return(Dec(sign, DigitsValue(digs),
                        IF dots = {} THEN 0
                        ELSE (CHOOSE k \in dots : TRUE) - Len(num)))

\* decimal.Decimal(x)
Decimal(x) ==
    CASE x.t = "str" -> DecimalOfChars(x.v)
      [] x.t = "int" -> Return(Dec(IF x.v[1] < 0 THEN 1 ELSE 0,
                                   IF x.v[1] < 0 THEN -x.v[1] ELSE x.v[1], 0))
      [] OTHER -> Raise(TypeError)

\* the number a date field of one or two (the year: four) digits writes
FieldValue(token) ==
    CASE token = "2020" -> 2020
      [] token = "00" -> 0
      [] token = "01" -> 1
      [] token = "12" -> 12
      [] token = "13" -> 13
      [] token = "23" -> 23
      [] token = "31" -> 31
      [] token = "59" -> 59
      [] OTHER -> -1

DateTime(f) == [t |-> "datetime", v |-> f]

\* datetime.datetime.strptime(x, '%Y-%m-%d %H:%M:%S') of a string cut into
\* its fields and separators
Strptime(x) ==
    IF x.t # "str" THEN Raise(TypeError)
    ELSE LET d == x.v
             f == [k \in 1..6 |-> FieldValue(d[2 * k - 1])]
         IN  IF \/ Len(d) # 11
                \/ <<d[2], d[4], d[6], d[8], d[10]>> # <<"-", "-", " ", ":", ":">>
                \/ \E k \in 1..6 : f[k] < 0
                \/ f[2] \notin 1..12
                \/ f[3] \notin 1..31
                \/ f[4] \notin 0..23
                \/ f[5] \notin 0..59
                \/ f[6] \notin 0..61
             THEN Raise(ValueError)
             ELSE Return(DateTime(f))

(***************************************************************************)
(* The push-channel wrappers.  A wrapper's run is the handler invocations  *)
(* it made, what it printed, and the exception that left it (or none).     *)
(***************************************************************************)
PyBool(b) == [t |-> "bool", v |-> <<b>>]

Run(handler_calls, printed, err) ==
    [calls |-> handler_calls, stdout |-> printed, raised |-> err]

IndexError == "IndexError"

\* attach_trollbox.trollbox_wrapper.wrapper
TrollboxWrapper(args) ==
    IF Len(args) < 5 THEN Run(<<>>, <<>>, IndexError)
    ELSE Run(<< <<args[1], args[2], args[3], args[4], args[5]>> >>, <<>>, NoError)

\* the first exception among the results, in the order they are computed
RECURSIVE FirstError(_)
FirstError(results) ==
    IF results = <<>> THEN NoError
    ELSE IF Head(results).err # NoError THEN Head(results).err
    ELSE FirstError(Tail(results))

\* the wrapper, were it to take any value but 0 for frozen and to hand the
\* 24h high and low over in each other's place
TickerWrapperSwapped(args) ==
    IF Len(args) < 10 THEN Run(<<>>, <<>>, IndexError)
    ELSE
    LET numbers == [k \in 2..10 |-> IF k = 8 THEN Return(PyNone)
                                    ELSE Decimal(args[k])]
        err == FirstError(<<numbers[2], numbers[3], numbers[4], numbers[5],
                            numbers[6], numbers[7], numbers[9], numbers[10]>>)
    IN  IF err # NoError THEN Run(<<>>, <<>>, err)
        ELSE Run(<< <<args[1], numbers[2].val, numbers[3].val, numbers[4].val,
                      numbers[5].val, numbers[6].val, numbers[7].val,
                      PyBool(~PyEq(args[8], PyInt(0))),
                      numbers[10].val, numbers[9].val>> >>, <<>>, NoError)

\* attach_ticker.ticker_wrapper.wrapper
TickerWrapper(args) ==
    IF Len(args) < 10 THEN Run(<<>>, <<>>, IndexError)
    ELSE
    LET last == Decimal(args[2])
        lowest_ask == Decimal(args[3])
        highest_bid == Decimal(args[4])
        change == Decimal(args[5])
        base_volume == Decimal(args[6])
        quote_volume == Decimal(args[7])
        is_frozen == PyBool(PyEq(args[8], PyInt(1)))
        high == Decimal(args[9])
        low == Decimal(args[10])
        err == FirstError(<<last, lowest_ask, highest_bid, change,
                            base_volume, quote_volume, high, low>>)
    IN  IF err # NoError THEN Run(<<>>, <<>>, err)
        ELSE Run(<< <<args[1], last.val, lowest_ask.val, highest_bid.val,
                      change.val, base_volume.val, quote_volume.val,
                      is_frozen, high.val, low.val>> >>, <<>>, NoError)

\* the blob of an orderBookModify entry
ModifyBlob(data) ==
    LET amount == Decimal(DictGet(data.amount))
        rate == Decimal(DictGet(data.rate))
        err == FirstError(<<amount, rate>>)
    IN  IF err # NoError THEN Raise(err)
        ELSE Return([amount |-> amount.val, rate |-> rate.val,
                     type |-> DictGet(data.type)])

\* the blob of an orderBookRemove entry
RemoveBlob(data) ==
    LET rate == Decimal(DictGet(data.rate))
    IN  IF rate.err # NoError THEN Raise(rate.err)
        ELSE Return([rate |-> rate.val, type |-> DictGet(data.type)])

\* the blob of any other entry: a new trade
TradeBlob(data) ==
    LET rate == Decimal(DictGet(data.rate))
        amount == Decimal(DictGet(data.amount))
        total == Decimal(DictGet(data.total))
        date == Strptime(DictGet(data.date))
        err == FirstError(<<rate, amount, total, date>>)
    IN  IF err # NoError THEN Raise(err)
        ELSE Return([tradeID |-> DictGet(data.tradeID), rate |-> rate.val,
                     amount |-> amount.val, total |-> total.val,
                     date |-> date.val, type |-> DictGet(data.type)])

EmptyBook ==
    [modifications |-> <<>>, removals |-> <<>>, trades |-> <<>>,
     stdout |-> <<>>, raised |-> NoError]

\* the loop's turn, were it to put each blob in front of its list
OrderBookStepPrepend(book, arg) ==
    LET tag == DictGet(arg.type)
    IN  IF PyEq(tag, S("orderBookModify"))
        THEN LET blob == ModifyBlob(arg.data)
             IN  IF blob.err # NoError THEN [book EXCEPT !.raised = blob.err]
                 ELSE [book EXCEPT !.modifications = <<blob.val>> \o @]
        ELSE IF PyEq(tag, S("orderBookRemove"))
        THEN LET blob == RemoveBlob(arg.data)
             IN  IF blob.err # NoError THEN [book EXCEPT !.raised = blob.err]
                 ELSE [book EXCEPT !.removals = <<blob.val>> \o @]
        ELSE LET blob == TradeBlob(arg.data)
             IN  IF blob.err # NoError THEN [book EXCEPT !.raised = blob.err]
                 ELSE [book EXCEPT !.stdout = Append(@, blob.val),
                                   !.trades = <<blob.val>> \o @]

\* one turn of the loop  for arg in args
OrderBookStep(book, arg) ==
    LET tag == DictGet(arg.type)
    IN  IF PyEq(tag, S("orderBookModify"))
        THEN LET blob == ModifyBlob(arg.data)
             IN  IF blob.err # NoError THEN [book EXCEPT !.raised = blob.err]
                 ELSE [book EXCEPT !.modifications = Append(@, blob.val)]
        ELSE IF PyEq(tag, S("orderBookRemove"))
        THEN LET blob == RemoveBlob(arg.data)
             IN  IF blob.err # NoError THEN [book EXCEPT !.raised = blob.err]
                 ELSE [book EXCEPT !.removals = Append(@, blob.val)]
        ELSE LET blob == TradeBlob(arg.data)
             IN  IF blob.err # NoError THEN [book EXCEPT !.raised = blob.err]
                 \* pprint(blob)
                 ELSE [book EXCEPT !.stdout = Append(@, blob.val),
                                   !.trades = Append(@, blob.val)]

\* the loop, left at the first exception
RECURSIVE OrderBookLoop(_, _)
OrderBookLoop(book, args) ==
    IF args = <<>> \/ book.raised # NoError THEN book
    ELSE OrderBookLoop(OrderBookStep(book, Head(args)), Tail(args))

\* the wrapper, were it to catch the parse failure and hand over the
\* entries parsed before it
OrderBookWrapperPartial(args, kwargs) ==
    LET book == OrderBookLoop(EmptyBook, args)
    IN  Run(<< [modifications |-> book.modifications,
                removals |-> book.removals,
                trades |-> book.trades,
                kwargs |-> kwargs] >>, book.stdout, NoError)

\* attach_order_book.order_book_wrapper.wrapper
OrderBookWrapper(args, kwargs) ==
    LET book == OrderBookLoop(EmptyBook, args)
    IN  IF book.raised # NoError THEN Run(<<>>, book.stdout, book.raised)
        ELSE Run(<< [modifications |-> book.modifications,
                     removals |-> book.removals,
                     trades |-> book.trades,
                     kwargs |-> kwargs] >>, book.stdout, NoError)

(***************************************************************************)
(* State.                                                                  *)
(***************************************************************************)
ClientIds == {"x", "y"}

VARIABLES
    clients,    \* the client objects, by the name of the variable holding them
    ctor,       \* the arguments each client was constructed with
    cmp,        \* the last comparison made and its outcome
    now,        \* the system clock read by time.time(), in ticks
    http,       \* the HTTP requests issued, oldest first
    subs,       \* the handlers subscribed on the push session, by topic
    msg,        \* the push message last received
    calls,      \* the invocations of the caller's handler for msg
    stdout,     \* what the wrapper printed while handling msg
    raised      \* the exception that left the wrapper handling msg

vars == <<clients, ctor, cmp, now, http, subs, msg, calls, stdout, raised>>

NoArgs == [path |-> NoPath, api_key |-> Missing, secret |-> Missing]
NoCmp == [op |-> "none", a |-> "x", b |-> "x", result |-> "none", err |-> NoError]
NoMsg == [n |-> 0, wrapper |-> "none", topic |-> PyNone, args |-> <<>>, kwargs |-> <<>>]

Constructed(i) == clients[i].status = "constructed"

\* x = Poloniex(config_file_path, api_key, secret)
Construct(i, args) ==
    /\ clients[i].status = "unconstructed"
    /\ clients' = [clients EXCEPT ![i] = PoloniexInit(args)]
    /\ ctor' = [ctor EXCEPT ![i] = args]
    /\ UNCHANGED <<cmp, now, http, subs, msg, calls, stdout, raised>>

\* a == b
Eq(i, j) ==
    /\ Constructed(i) /\ Constructed(j)
    /\ cmp' = [op |-> "eq", a |-> i, b |-> j] @@ ClientEq(clients[i], clients[j])
    /\ UNCHANGED <<clients, ctor, now, http, subs, msg, calls, stdout, raised>>

\* a != b
Ne(i, j) ==
    /\ Constructed(i) /\ Constructed(j)
    /\ cmp' = [op |-> "ne", a |-> i, b |-> j] @@ ClientNe(clients[i], clients[j])
    /\ UNCHANGED <<clients, ctor, now, http, subs, msg, calls, stdout, raised>>

(***************************************************************************)
(* The system clock.  time.time() reads the wall clock, which other        *)
(* programs advance and may set back.                                      *)
(***************************************************************************)
Tick ==
    /\ now < MaxClock
    /\ now' = now + 1
    /\ UNCHANGED <<clients, ctor, cmp, http, subs, msg, calls, stdout, raised>>

\* the wall clock is stepped back (clock synchronisation, an operator)
ClockSetBack ==
    /\ now > 0
    /\ now' = now - 1
    /\ UNCHANGED <<clients, ctor, cmp, http, subs, msg, calls, stdout, raised>>

(***************************************************************************)
(* REST calls.  Each issues one request; the response is parsed and        *)
(* returned and leaves no trace in the client.                             *)
(***************************************************************************)
\* '{}{}'.format(endpoint, resource)
Url(endpoint, resource) == <<endpoint, resource>>

NoHeaders == [Sign |-> Missing, Key |-> Missing]

\* requests.get(url, params=params)
PublicGet(i, params) ==
    /\ Constructed(i)
    /\ Len(http) < MaxCalls
    /\ http' = Append(http, [client |-> i, verb |-> "GET",
                             url |-> Url(clients[i].api_endpoint, "public"),
                             params |-> params, data |-> <<>>,
                             headers |-> NoHeaders])
    /\ UNCHANGED <<clients, ctor, cmp, now, subs, msg, calls, stdout, raised>>

\* params, headers = self.__prepare_request_data(params)
\* requests.post(url, data=params, headers=headers)
PrivatePost(i, params) ==
    /\ Constructed(i)
    /\ Len(http) < MaxCalls
    /\ LET prepared == PrepareRequestData(clients[i], params, now)
       IN  http' = Append(http, [client |-> i, verb |-> "POST",
                                 url |-> Url(clients[i].private_api_endpoint, "tradingApi"),
                                 params |-> <<>>, data |-> prepared.params,
                                 headers |-> prepared.headers])
    /\ UNCHANGED <<clients, ctor, cmp, now, subs, msg, calls, stdout, raised>>

Command(name) == <<S("command"), S(name)>>

CANDLE_PERIOD_14400 == 14400

TickerCall(i) == PublicGet(i, <<Command("returnTicker")>>)

DailyVolume(i) == PublicGet(i, <<Command("return24hVolume")>>)

Currencies(i) == PublicGet(i, <<Command("returnCurrencies")>>)

\* pair is None or a currency pair
OrderBook(i, pair, depth) ==
    PublicGet(i, IF pair = PyNone
                 THEN <<Command("returnOrderBook"), <<S("depth"), depth>>>>
                 ELSE <<Command("returnOrderBook"), <<S("depth"), depth>>,
                        <<S("currencyPair"), pair>>>>)

\* trade_history, were it to send the command of its name
TradeHistoryOwnCommand(i, pair, start, end) ==
    PublicGet(i, <<Command("returnTradeHistory"), <<S("pair"), pair>>,
                   <<S("start"), start>>, <<S("end"), end>>>>)

TradeHistory(i, pair, start, end) ==
    PublicGet(i, <<Command("returnOrderBook"), <<S("pair"), pair>>,
                   <<S("start"), start>>, <<S("end"), end>>>>)

ChartData(i, pair, start, end, period) ==
    PublicGet(i, <<Command("returnOrderBook"), <<S("pair"), pair>>,
                   <<S("start"), start>>, <<S("end"), end>>,
                   <<S("period"), period>>>>)

LoanOrders(i, currency) ==
    PublicGet(i, <<Command("returnLoanOrders"), <<S("currency"), currency>>>>)

Balances(i) == PrivatePost(i, <<Command("returnBalances")>>)

CompleteBalances(i) == PrivatePost(i, <<Command("returnCompleteBalances")>>)

DepositAddresses(i) == PrivatePost(i, <<Command("returnDepositAddresses")>>)

NewDepositAddress(i, currency) ==
    PrivatePost(i, <<Command("generateNewAddress"), <<S("currency"), currency>>>>)

DepositsAndWithdrawals(i, start, end) ==
    PrivatePost(i, <<Command("returnDepositsWithdrawals"),
                     <<S("start"), start>>, <<S("end"), end>>>>)

OpenOrders(i, pair) ==
    PrivatePost(i, <<Command("returnOpenOrders"), <<S("currencyPair"), pair>>>>)

UserTradeHistory(i, start, end, pair) ==
    PrivatePost(i, <<Command("returnTradeHistory"), <<S("currencyPair"), pair>>,
                     <<S("start"), start>>, <<S("end"), end>>>>)

OrderTrades(i, order_id) ==
    PrivatePost(i, <<Command("returnOrderTrades"), <<S("orderNumber"), order_id>>>>)

CancelOrder(i, order_id) ==
    PrivatePost(i, <<Command("cancelOrder"), <<S("orderNumber"), order_id>>>>)

Buy(i, currency_pair, rate, amount, post_only, fill_or_kill, immediate_or_cancel) ==
    PrivatePost(i, <<Command("buy"), <<S("currencyPair"), currency_pair>>,
                     <<S("rate"), rate>>, <<S("amount"), amount>>,
                     <<S("fillOrKill"), fill_or_kill>>,
                     <<S("immediateOrCancel"), immediate_or_cancel>>,
                     <<S("postOnly"), post_only>>>>)

Sell(i, currency_pair, rate, amount, post_only, fill_or_kill, immediate_or_cancel) ==
    PrivatePost(i, <<Command("sell"), <<S("currencyPair"), currency_pair>>,
                     <<S("rate"), rate>>, <<S("amount"), amount>>,
                     <<S("fillOrKill"), fill_or_kill>>,
                     <<S("immediateOrCancel"), immediate_or_cancel>>,
                     <<S("postOnly"), post_only>>>>)

FeeInfo(i) == PrivatePost(i, <<Command("returnFeeInfo")>>)

AvailableBalances(i, account) ==
    PrivatePost(i, <<Command("returnAvailableAccountBalances"),
                     <<S("account"), account>>>>)

\* arguments the calls are made with
PairArgs == {S("BTC_ETH")}
CurrencyArgs == {S("BTC")}
StartArgs == {PyInt(0)}
EndArgs == {PyInt(1)}
OrderIdArgs == {PyInt(7)}
RateArgs == {Str(<<"0", ".", "0", "5">>)}
AmountArgs == {Str(<<"1", ".", "5">>)}
AccountArgs == {S("exchange"), Str(<<"my", " ", "a", "&", "b", "=", "c">>)}

(***************************************************************************)
(* Push channels.  attach_* creates the runner when there is none and      *)
(* runs a session that subscribes the wrapped handler to the topic; the    *)
(* session then calls the wrapper once for each message of the topic.      *)
(***************************************************************************)
Runner == "ApplicationRunner"

\* attach_*, were it to make a new runner at every call and to keep the
\* topic in the client
AttachKeepsTopic(i, wrapper, topic) ==
    /\ Constructed(i)
    /\ clients' = [clients EXCEPT ![i].runner = Runner,
                                  ![i].websockets_endpoint = wrapper]
    /\ subs' = subs \cup {[client |-> i, wrapper |-> wrapper, topic |-> topic]}
    /\ UNCHANGED <<ctor, cmp, now, http, msg, calls, stdout, raised>>

Attach(i, wrapper, topic) ==
    /\ Constructed(i)
    /\ clients' = [clients EXCEPT ![i].runner = Runner]
    /\ subs' = subs \cup {[client |-> i, wrapper |-> wrapper, topic |-> topic]}
    /\ UNCHANGED <<ctor, cmp, now, http, msg, calls, stdout, raised>>

AttachTrollbox(i) == Attach(i, "trollbox", S("trollbox"))

AttachTicker(i) == Attach(i, "ticker", S("ticker"))

AttachOrderBook(i, currency_pair) == Attach(i, "order_book", currency_pair)

\* the session delivers a message to a subscribed wrapper, which runs
Deliver(sub, args, kwargs, run) ==
    /\ sub \in subs
    /\ msg.n < MaxMessages
    /\ msg' = [n |-> msg.n + 1, wrapper |-> sub.wrapper, topic |-> sub.topic, args |-> args,
               kwargs |-> kwargs]
    /\ calls' = run.calls
    /\ stdout' = run.stdout
    /\ raised' = run.raised
    /\ UNCHANGED <<clients, ctor, cmp, now, http, subs>>

OnTrollbox(sub, args) ==
    /\ sub.wrapper = "trollbox"
    /\ Deliver(sub, args, <<>>, TrollboxWrapper(args))

OnTicker(sub, args) ==
    /\ sub.wrapper = "ticker"
    /\ Deliver(sub, args, <<>>, TickerWrapper(args))

OnOrderBook(sub, args, kwargs) ==
    /\ sub.wrapper = "order_book"
    /\ Deliver(sub, args, kwargs, OrderBookWrapper(args, kwargs))

\* messages of the trollbox topic
TrollboxMessages ==
    {<<S("trollboxMessage"), n, S("bob"), m, r>> :
        n \in {PyInt(1), PyInt(2)}, m \in {S("hi"), Str(<<>>)},
        r \in {PyInt(0), PyInt(5)}}

\* a ticker message whose numbers all differ
BaseTicker ==
    <<S("BTC_ETH"), Str(<<"0", ".", "0", "5">>), Str(<<"0", ".", "0", "5", "1">>),
      Str(<<"0", ".", "0", "4", "9">>), Str(<<"-", "0", ".", "0", "1">>),
      Str(<<"1", "2", "0", ".", "5">>), Str(<<"2", "4", "0", "0", ".", "3", "0">>),
      PyInt(0), Str(<<"0", ".", "0", "6">>), Str(<<"0", ".", "0", "4">>)>>

\* values a field of the feed may also hold: another number, a string that
\* is no number, nothing
RawNumbers == {Str(<<"7">>), Str(<<"1", ".", "5", "x">>), PyNone}

RawFrozen == {PyInt(0), PyInt(1), S("1")}

\* messages of the ticker topic: the base message, with any is-frozen
\* value, and with any one number replaced
TickerMessages ==
    {[BaseTicker EXCEPT ![8] = z] : z \in RawFrozen}
    \cup {[BaseTicker EXCEPT ![8] = z, ![k] = r] :
            z \in RawFrozen, k \in (2..7) \cup {9, 10}, r \in RawNumbers}

GoodDate ==
    Str(<<"2020", "-", "01", "-", "01", " ", "00", ":", "00", ":", "00">>)
BadDate ==
    Str(<<"2020", "-", "13", "-", "01", " ", "00", ":", "00", ":", "00">>)

Entry(tag, side, rate, amount, total, date, tradeID) ==
    [type |-> tag,
     data |-> [type |-> side, rate |-> rate, amount |-> amount,
               total |-> total, date |-> date, tradeID |-> tradeID]]

\* entries of an order-book batch: two modifications, a removal, an
\* untagged trade, and two malformed entries (an amount that is no number,
\* a date with month 13)
BookEntries ==
    {Entry(S("orderBookModify"), S("bid"), Str(<<"0", ".", "0", "5">>),
           Str(<<"1", ".", "5">>), Missing, Missing, Missing),
     Entry(S("orderBookModify"), S("ask"), Str(<<"0", ".", "0", "6">>),
           Str(<<"2">>), Missing, Missing, Missing),
     Entry(S("orderBookModify"), S("bid"), Str(<<"0", ".", "0", "5">>),
           Str(<<"a", "b", "c">>), Missing, Missing, Missing),
     Entry(S("orderBookRemove"), S("ask"), Str(<<"0", ".", "0", "4">>),
           Missing, Missing, Missing, Missing),
     Entry(Missing, S("sell"), Str(<<"0", ".", "0", "5">>),
           Str(<<"1", ".", "5">>), Str(<<"0", ".", "0", "7", "5">>),
           GoodDate, S("77")),
     Entry(S("newTrade"), S("buy"), Str(<<"0", ".", "0", "4">>),
           Str(<<"3">>), Str(<<"0", ".", "1", "2">>), BadDate, S("78"))}

RECURSIVE SeqsUpTo(_, _)
SeqsUpTo(set, n) ==
    IF n = 0 THEN {<<>>}
    ELSE LET shorter == SeqsUpTo(set, n - 1)
         IN  shorter \cup {Append(q, e) : q \in shorter, e \in set}

\* batches of the order-book topic
BookBatches == SeqsUpTo(BookEntries, MaxBatch)

\* the keyword arguments a batch comes with: its sequence number
BookKwargs == {<< <<S("seq"), PyInt(1)>> >>}

InitCred ==
    /\ clients = [i \in ClientIds |-> NoClient("unconstructed", NoError, <<>>)]
    /\ ctor = [i \in ClientIds |-> NoArgs]
    /\ cmp = NoCmp
    /\ now = 0
    /\ http = <<>>
    /\ subs = {}
    /\ msg = NoMsg
    /\ calls = <<>>
    /\ stdout = <<>>
    /\ raised = NoError

\* construction, comparison, and a call of a constructed client
NextCred ==
    \/ \E i \in ClientIds, args \in CtorInputs : Construct(i, args)
    \/ \E i \in ClientIds, j \in ClientIds : Eq(i, j)
    \/ \E i \in ClientIds, j \in ClientIds : Ne(i, j)
    \/ \E i \in ClientIds : TickerCall(i)

SpecCred == InitCred /\ [][NextCred]_vars

\* a client constructed from explicit credentials, at any instant
ApiCtorInputs ==
    [path : {NoPath}, api_key : {S("a"), S("b")}, secret : {S("s"), S("t")}]

InitApi ==
    /\ \E args \in ApiCtorInputs :
          /\ clients = [i \in ClientIds |->
                          IF i = "x" THEN PoloniexInit(args)
                          ELSE NoClient("unconstructed", NoError, <<>>)]
          /\ ctor = [i \in ClientIds |-> IF i = "x" THEN args ELSE NoArgs]
    /\ cmp = NoCmp
    /\ now \in 0..MaxClock
    /\ http = <<>>
    /\ subs = {}
    /\ msg = NoMsg
    /\ calls = <<>>
    /\ stdout = <<>>
    /\ raised = NoError

PrivateCall(i) ==
    \/ Balances(i)
    \/ CompleteBalances(i)
    \/ DepositAddresses(i)
    \/ \E c \in CurrencyArgs : NewDepositAddress(i, c)
    \/ \E s \in StartArgs, e \in EndArgs : DepositsAndWithdrawals(i, s, e)
    \/ \E p \in PairArgs \cup {S("all")} : OpenOrders(i, p)
    \/ \E s \in StartArgs, e \in EndArgs, p \in {S("all")} : UserTradeHistory(i, s, e, p)
    \/ \E o \in OrderIdArgs : OrderTrades(i, o)
    \/ \E o \in OrderIdArgs : CancelOrder(i, o)
    \/ \E p \in PairArgs, r \in RateArgs, a \in AmountArgs :
          Buy(i, p, r, a, PyInt(1), PyInt(0), PyInt(0))
    \/ \E p \in PairArgs, r \in RateArgs, a \in AmountArgs :
          Sell(i, p, r, a, PyInt(1), PyInt(0), PyInt(0))
    \/ FeeInfo(i)
    \/ \E a \in AccountArgs : AvailableBalances(i, a)

\* the private calls of one client, under a running clock
NextSign ==
    \/ Tick
    \/ ClockSetBack
    \/ \E i \in ClientIds : PrivateCall(i)

SpecSign == InitApi /\ [][NextSign]_vars

\* a client constructed from explicit credentials
InitPush ==
    /\ clients = [i \in ClientIds |->
                    IF i = "x"
                    THEN PoloniexInit([path |-> NoPath, api_key |-> S("a"),
                                       secret |-> S("s")])
                    ELSE NoClient("unconstructed", NoError, <<>>)]
    /\ ctor = [i \in ClientIds |->
                 IF i = "x"
                 THEN [path |-> NoPath, api_key |-> S("a"), secret |-> S("s")]
                 ELSE NoArgs]
    /\ cmp = NoCmp
    /\ now = 0
    /\ http = <<>>
    /\ subs = {}
    /\ msg = NoMsg
    /\ calls = <<>>
    /\ stdout = <<>>
    /\ raised = NoError

\* subscriptions and the messages delivered to them
NextPush ==
    \/ \E i \in ClientIds : AttachTrollbox(i)
    \/ \E i \in ClientIds : AttachTicker(i)
    \/ \E i \in ClientIds, p \in PairArgs : AttachOrderBook(i, p)
    \/ \E sub \in subs, args \in TrollboxMessages : OnTrollbox(sub, args)
    \/ \E sub \in subs, args \in TickerMessages : OnTicker(sub, args)
    \/ \E sub \in subs, args \in BookBatches, kw \in BookKwargs :
          OnOrderBook(sub, args, kw)

SpecPush == InitPush /\ [][NextPush]_vars

\* the public calls of one client and its subscriptions
NextPublic ==
    \/ \E i \in ClientIds : TickerCall(i)
    \/ \E i \in ClientIds : DailyVolume(i)
    \/ \E i \in ClientIds : Currencies(i)
    \/ \E i \in ClientIds, p \in PairArgs \cup {PyNone} : OrderBook(i, p, PyInt(10))
    \/ \E i \in ClientIds, p \in PairArgs, b \in StartArgs, e \in EndArgs :
          TradeHistory(i, p, b, e)
    \/ \E i \in ClientIds, p \in PairArgs, b \in StartArgs, e \in EndArgs :
          ChartData(i, p, b, e, PyInt(CANDLE_PERIOD_14400))
    \/ \E i \in ClientIds, c \in CurrencyArgs : LoanOrders(i, c)
    \/ \E i \in ClientIds : AttachTrollbox(i)
    \/ \E i \in ClientIds : AttachTicker(i)
    \/ \E i \in ClientIds, p \in PairArgs : AttachOrderBook(i, p)

SpecPublic == InitApi /\ [][NextPublic]_vars

\* every call of one client: public, private, and subscriptions
NextClient ==
    \/ NextPublic
    \/ \E i \in ClientIds : PrivateCall(i)

SpecClient == InitPush /\ [][NextClient]_vars

(***************************************************************************)
(* Properties.                                                             *)
(***************************************************************************)
\* the value a mapping holds for a key, Missing when it holds none
ParamValue(params, key) ==
    IF \E k \in 1..Len(params) : params[k][1] = key
    THEN params[CHOOSE k \in 1..Len(params) : params[k][1] = key][2]
    ELSE Missing

NonceOf(request) == ParamValue(request.data, S("nonce")).v[1]

SameCredentials(q, r) ==
    /\ clients[q.client].api_key = clients[r.client].api_key
    /\ clients[q.client].secret = clients[r.client].secret

\* C1: the nonces of the private calls made with the same credentials are
\* strictly increasing in the order of the calls, so that two successive
\* calls never carry the same nonce nor the same signature.
NonceStrictlyIncreasing ==
    \A j \in 1..Len(http), k \in 1..Len(http) :
        (j < k /\ http[j].verb = "POST" /\ http[k].verb = "POST"
           /\ SameCredentials(http[j], http[k]))
        => /\ NonceOf(http[j]) < NonceOf(http[k])
           /\ http[j].headers.Sign # http[k].headers.Sign

\* C2: every client whose construction succeeded holds a non-empty API key
\* and a non-empty secret.
ConstructedHoldsCredentials ==
    \A i \in ClientIds :
        Constructed(i) =>
            /\ clients[i].api_key.t # "none" /\ clients[i].api_key.v # <<>>
            /\ clients[i].secret.t # "none" /\ clients[i].secret.v # <<>>

\* a construction without config_file_path and without one of api_key, secret
LacksSource(i) ==
    /\ clients[i].status # "unconstructed"
    /\ ~ctor[i].path.given
    /\ (ctor[i].api_key.t = "none" \/ ctor[i].secret.t = "none")

\* C3: a construction with no config_file_path and api_key or secret absent
\* fails with the configuration error of the first check, and that client
\* has issued no HTTP request and has no runner or subscription.
NoSourceFailsBeforeNetwork ==
    \A i \in ClientIds :
        LacksSource(i) =>
            /\ clients[i].status = "failed"
            /\ clients[i].err = ErrNeedSource
            /\ clients[i].runner = NoRunner
            /\ \A k \in 1..Len(http) : http[k].client # i
            /\ \A sub \in subs : sub.client # i

\* C3 witness: a construction given a key but no secret has failed, while
\* the other client has issued a request.
NoSourceFailsWitness ==
    \E i \in ClientIds :
        /\ LacksSource(i)
        /\ ctor[i].api_key = S("a")
        /\ clients[i].status = "failed"
        /\ http # <<>>

LoaderOrder == <<"ini", "json", "py">>

\* C4: the loader tries INI, JSON, Python source in that order and stops at
\* the first success; an INI file lacking the secret falls through to the
\* JSON and source loaders; the loader fails only when all three have
\* failed, and a pair it returns lacks neither the key nor the secret.
LoaderFallsThroughAndReturnsPair ==
    \A i \in ClientIds :
        (clients[i].status # "unconstructed" /\ ctor[i].path.given) =>
            LET file == ctor[i].path.file
                got == GetCredentials(file)
            IN  /\ got.tried = SubSeq(LoaderOrder, 1, Len(got.tried))
                /\ Len(got.tried) >= 1
                /\ (file.ini.section /\ file.ini.secret = Missing)
                      => Len(got.tried) = 3
                /\ got.err # NoError
                      => (got.err = ErrMisconfigured /\ Len(got.tried) = 3)
                /\ got.err = NoError
                      => (got.api_key.t # "none" /\ got.secret.t # "none")

IsModify(entry) == entry.type = S("orderBookModify")
IsRemove(entry) == entry.type = S("orderBookRemove")
IsTrade(entry) == ~IsModify(entry) /\ ~IsRemove(entry)

\* what the fields an entry of its kind carries parse to
EntryBlob(entry) ==
    IF IsModify(entry) THEN ModifyBlob(entry.data)
    ELSE IF IsRemove(entry) THEN RemoveBlob(entry.data)
    ELSE TradeBlob(entry.data)

WellFormed(entry) == EntryBlob(entry).err = NoError

BlobsOf(entries) == [k \in 1..Len(entries) |-> EntryBlob(entries[k]).val]

BookDelivered == msg.n > 0 /\ msg.wrapper = "order_book"
TickerDelivered == msg.n > 0 /\ msg.wrapper = "ticker"

\* C5: a batch of well-formed entries is handed to the handler as three
\* sequences: the orderBookModify entries, the orderBookRemove entries and
\* all the others, each in the order of the batch, every entry in exactly
\* one of them.
BookPartitionKeepsOrder ==
    (BookDelivered /\ \A k \in 1..Len(msg.args) : WellFormed(msg.args[k])) =>
        /\ Len(calls) = 1
        /\ calls[1].modifications = BlobsOf(SelectSeq(msg.args, IsModify))
        /\ calls[1].removals = BlobsOf(SelectSeq(msg.args, IsRemove))
        /\ calls[1].trades = BlobsOf(SelectSeq(msg.args, IsTrade))
        /\ Len(calls[1].modifications) + Len(calls[1].removals)
              + Len(calls[1].trades) = Len(msg.args)

\* C5 witness: a batch of two different modifications has been handed
\* over, the bid before the ask as in the batch.
BookPartitionWitness ==
    /\ BookDelivered
    /\ Len(msg.args) = 2
    /\ Len(calls) = 1
    /\ Len(calls[1].modifications) = 2
    /\ calls[1].modifications[1].type = S("bid")
    /\ calls[1].modifications[2].type = S("ask")

TickerNumbers == (2..7) \cup {9, 10}

\* a field the wrapper parses fails to parse
HasMalformed ==
    \/ /\ msg.wrapper = "ticker"
       /\ \E k \in TickerNumbers : Decimal(msg.args[k]).err # NoError
    \/ /\ msg.wrapper = "order_book"
       /\ \E k \in 1..Len(msg.args) : ~WellFormed(msg.args[k])

\* C6: for each message received the wrapper invokes the handler exactly
\* once and does nothing else; stated here for the messages whose fields
\* all parse, the others being the case of C7.
HandlerOnceAndNothingElse ==
    (msg.n > 0 /\ ~HasMalformed) => (Len(calls) = 1 /\ stdout = <<>>)

\* C7: when a field of a ticker message or of an entry of an order-book
\* batch fails to parse, the parse failure leaves the wrapper and the
\* handler is not invoked for that message at all.
MalformedAbortsMessage ==
    (msg.n > 0 /\ HasMalformed) =>
        /\ calls = <<>>
        /\ raised \in {InvalidOperation, TypeError, ValueError}

\* C7 witness: a batch whose first entry is a well-formed trade and whose
\* later entry is malformed was received, and the handler was not invoked.
MalformedAbortsWitness ==
    /\ BookDelivered
    /\ Len(msg.args) >= 2
    /\ IsTrade(msg.args[1]) /\ WellFormed(msg.args[1])
    /\ HasMalformed
    /\ calls = <<>>
    /\ raised # NoError

DigitChar(n) ==
    CASE n = 0 -> "0" [] n = 1 -> "1" [] n = 2 -> "2" [] n = 3 -> "3"
      [] n = 4 -> "4" [] n = 5 -> "5" [] n = 6 -> "6" [] n = 7 -> "7"
      [] n = 8 -> "8" [] n = 9 -> "9"

RECURSIVE NatDigits(_)
NatDigits(n) ==
    IF n < 10 THEN <<DigitChar(n)>>
    ELSE Append(NatDigits(n \div 10), DigitChar(n % 10))

RECURSIVE ZeroPad(_, _)
ZeroPad(ds, n) == IF Len(ds) >= n THEN ds ELSE ZeroPad(<<"0">> \o ds, n)

\* the positional notation of a decimal with exponent at most 0
DecimalChars(d) ==
    LET sign == d.v[1]
        exp == d.v[3]
        ds == ZeroPad(NatDigits(d.v[2]), 1 - exp)
        cut == Len(ds) + exp
        body == IF exp = 0 THEN ds
                ELSE SubSeq(ds, 1, cut) \o <<".">> \o SubSeq(ds, cut + 1, Len(ds))
    IN  IF sign = 1 THEN <<"-">> \o body ELSE body

\* C8: the handler of the ticker gets the ten fields in their positions:
\* the pair unchanged, each number the exact decimal its raw string writes
\* (writing it out gives the raw string back), and is-frozen true exactly
\* when the raw eighth value is the integer 1.
TickerFieldsExact ==
    (TickerDelivered /\ ~HasMalformed) =>
        /\ Len(calls) = 1
        /\ Len(calls[1]) = 10
        /\ calls[1][1] = msg.args[1]
        /\ \A k \in TickerNumbers :
              /\ calls[1][k].t = "decimal"
              /\ DecimalChars(calls[1][k]) = msg.args[k].v
        /\ calls[1][8] = PyBool(msg.args[8] = PyInt(1))

\* C8 witness: a frozen ticker was handed over.
TickerFieldsWitness ==
    /\ TickerDelivered
    /\ msg.args[8] = PyInt(1)
    /\ Len(calls) = 1
    /\ calls[1][8] = PyBool(TRUE)
    /\ calls[1][2] = Dec(0, 5, -2)

HasNonceOnce(params) ==
    Cardinality({k \in 1..Len(params) : params[k][1] = S("nonce")}) = 1

\* C9: each private call signs what it sends: the Sign header is the
\* HMAC-SHA512, keyed by the client's secret, of the URL-encoding of the
\* mapping posted, which holds the nonce minted at the call; the Key header
\* is the client's API key.
SignedIsSent ==
    [][(Len(http') = Len(http) + 1 /\ http'[Len(http')].verb = "POST") =>
         LET request == http'[Len(http')]
             client == clients[request.client]
         IN  /\ HasNonceOnce(request.data)
             /\ ParamValue(request.data, S("nonce")) = PyInt(now \div TicksPerMs)
             /\ request.headers.Sign =
                   HmacSha512Hex(client.secret, Encode(UrlEncode(request.data)))
             /\ request.headers.Key = client.api_key
             /\ request.data[1][1] = S("command")]_vars

\* C9 witness: a call whose parameters need quoting has been posted.
SignedIsSentWitness ==
    \E k \in 1..Len(http) :
        /\ http[k].verb = "POST"
        /\ Len(http[k].data) = 3
        /\ \E c \in 1..Len(http[k].headers.Sign.message.v) :
              http[k].headers.Sign.message.v[c] = "%26"

SameKeyAndSecret(i, j) ==
    /\ clients[i].api_key = clients[j].api_key
    /\ clients[i].secret = clients[j].secret

\* C10: comparing two constructed clients gives a boolean: a == b is true,
\* and a != b false, exactly when they hold the same key and secret.
ComparisonIsByCredentials ==
    /\ cmp.op = "eq" =>
          cmp.result = (IF SameKeyAndSecret(cmp.a, cmp.b) THEN "True" ELSE "False")
    /\ cmp.op = "ne" =>
          cmp.result = (IF SameKeyAndSecret(cmp.a, cmp.b) THEN "False" ELSE "True")

CommandSent == ParamValue(http'[Len(http')].params, S("command"))

IsTradeHistoryStep ==
    \E i \in ClientIds, p \in PairArgs, b \in StartArgs, e \in EndArgs :
        TradeHistory(i, p, b, e)

IsChartDataStep ==
    \E i \in ClientIds, p \in PairArgs, b \in StartArgs, e \in EndArgs :
        ChartData(i, p, b, e, PyInt(CANDLE_PERIOD_14400))

IsLoanOrdersStep ==
    \E i \in ClientIds, c \in CurrencyArgs : LoanOrders(i, c)

\* C12 as stated: trade_history, chart_data and loan_orders each send the
\* command returnOrderBook.
AllThreeSendReturnOrderBook ==
    [][(IsTradeHistoryStep \/ IsChartDataStep \/ IsLoanOrdersStep)
          => CommandSent = S("returnOrderBook")]_vars

\* C12: trade_history and chart_data send the command returnOrderBook,
\* whatever their arguments; loan_orders sends returnLoanOrders.
TwoSendReturnOrderBook ==
    [][/\ (IsTradeHistoryStep \/ IsChartDataStep)
            => CommandSent = S("returnOrderBook")
       /\ IsLoanOrdersStep => CommandSent = S("returnLoanOrders")]_vars

\* C12 witness: a trade_history request and a loan_orders request have
\* been issued, the first with returnOrderBook, the second with
\* returnLoanOrders.
TwoSendReturnOrderBookWitness ==
    /\ Len(http) = 2
    /\ http[1].params = <<Command("returnOrderBook"), <<S("pair"), S("BTC_ETH")>>,
                          <<S("start"), PyInt(0)>>, <<S("end"), PyInt(1)>>>>
    /\ http[2].params = <<Command("returnLoanOrders"), <<S("currency"), S("BTC")>>>>

====
